---- MODULE Spec2Model ----
(***************************************************************************)
(* Stack composition and cross-stack wiring of the purpleMist CDK app.     *)
(*                                                                         *)
(* The program is bin/main.ts: it instantiates stacks in order, running    *)
(* each stack constructor statement by statement, declares stack           *)
(* dependencies and calls app.synth().  The rendered resource graph is     *)
(* then handed to the provisioning engine (the deploy workflow), which     *)
(* creates resources in any order that respects the dependency edges.      *)
(* The repository holds several revisions of every stack; a configuration  *)
(* picks one revision per stack.                                           *)
(*                                                                         *)
(* Abstractions.  A resource is its stack and logical ID, its type and the *)
(* resources it references; VPC endpoints, tags, managed policies, port    *)
(* mappings and container settings are left out.  The four-stack           *)
(* composition is main.ts with its commented database/compute block and    *)
(* addDependency calls enabled, each props key wired to the producer's     *)
(* public field of the same name.  The VPC's subnet selection for the      *)
(* database is not evaluated: every network revision is composable.        *)
(*                                                                         *)
(* The deploy workflow's job runs its steps in order.  The steps before    *)
(* CDK Synth are single commands with an exit code; CDK Synth is the run   *)
(* of main up to app.synth(), CDK Diff the comparison with the live state  *)
(* and CDK Deploy the engine's run.  The cdk commands each re-run main;    *)
(* the model runs it once per job.                                         *)
(***************************************************************************)
EXTENDS Naturals, Sequences, FiniteSets, TLC

VARIABLES cfg, round, phase, stk, pc, env, app, err, first, diff, live, sstate, ops,
          images, job

vars == <<cfg, round, phase, stk, pc, env, app, err, first, diff, live, sstate, ops,
          images, job>>

\* Availability zones the VPC spreads over (maxAzs caps it at 3).
NumAzs == 2

\* Number of times the workflow's synth/deploy sequence is run.
MaxRounds == 2

\* Number of image pushes to the repository.
MaxPushes == 7

(***************************************************************************)
(* Statements of a stack constructor.                                      *)
(***************************************************************************)
St(k, h, id, ty, uses, peer, port, opt) ==
  [k |-> k, h |-> h, id |-> id, ty |-> ty, uses |-> uses,
   peer |-> peer, port |-> port, opt |-> opt, prio |-> 0]

\* const h = new ty(this, id, {... uses ...})
New(h, id, ty, uses) == St("new", h, id, ty, uses, "", 0, "")
\* const h = new efs.FileSystem(this, id, {vpc, securityGroup, vpcSubnets: opt})
NewFs(h, id, uses, opt) == St("newfs", h, id, "FileSystem", uses, "", 0, opt)
\* h.addIngressRule(peer, Port.tcp(port))
Rule(h, peer, port) ==
  St("rule", h, "", "", {h} \cup ({peer} \ {"anyIpv4"}), peer, port, "")
\* h.node.addDependency(on)
Dep(h, on) == St("dep", h, "", "", {h, on}, on, 0, "")
\* h.attachToApplicationTargetGroup(tg)
Attach(h, tg) == St("attach", h, "", "", {h, tg}, tg, 0, "")
\* props.alb.listeners[0].addTargets(id, {port, targets: [svc], priority})
AddTgts(id, svc, port, prio) ==
  [St("addTargets", "alb", id, "", {"alb", svc}, svc, port, "") EXCEPT !.prio = prio]
\* new cdk.CfnOutput(this, id, {value: uses, exportName: exp})
Output(id, exp, uses) == St("output", "", id, "CfnOutput", uses, "", 0, exp)
\* role.addToPrincipalPolicy(new PolicyStatement({actions: act, resources: [on]}))
Policy(role, act, on) ==
  St("policy", role, "", act, {role} \cup (on \ {"*"}), "", 0, "")
\* taskDef.addVolume({name, efsVolumeConfiguration: {fileSystemId, accessPointId}})
Volume(td, name, fs, ap) == St("volume", td, name, "", {td, fs, ap}, fs, 0, "")
\* const h = taskDef.addContainer(id, {image: fromEcrRepository(repo), ...})
Container(h, id, td, uses) == St("container", h, id, "", {td} \cup uses, td, 0, "")
\* container.addMountPoints({sourceVolume: name})
Mount(c, name) == St("mount", c, name, "", {c}, "", 0, "")
\* props.vpc.privateSubnets.forEach((subnet, index) => new efs.CfnMountTarget(...))
ForEachMt(idPrefix, fs, sg) ==
  St("foreachmt", "", idPrefix, "MountTarget", {"vpc", fs, sg}, sg, 0, "")

(***************************************************************************)
(* Network stack revisions.                                                *)
(***************************************************************************)
NetRevs == {"base", "p001", "p004"}
MonoRevs == {"p002", "p003"}

\* subnetConfiguration of the VPC each revision declares
SubnetConfiguration(rev) ==
  IF rev \in {"p001"}
  THEN << [name |-> "Public", subnetType |-> "PUBLIC", cidrMask |-> 28],
          [name |-> "Private", subnetType |-> "PRIVATE_WITH_EGRESS", cidrMask |-> 28],
          [name |-> "BedrockGateway", subnetType |-> "PRIVATE_WITH_EGRESS", cidrMask |-> 28] >>
  ELSE IF rev = "p004"
  THEN << [name |-> "Public", subnetType |-> "PUBLIC", cidrMask |-> 28],
          [name |-> "OpenWebUI-Private", subnetType |-> "PRIVATE_WITH_EGRESS", cidrMask |-> 28],
          [name |-> "BedrockGateway-Private", subnetType |-> "PRIVATE_WITH_EGRESS", cidrMask |-> 28] >>
  ELSE << [name |-> "Public", subnetType |-> "PUBLIC", cidrMask |-> 24],
          [name |-> "Private", subnetType |-> "PRIVATE_WITH_EGRESS", cidrMask |-> 24],
          [name |-> "Isolated", subnetType |-> "PRIVATE_ISOLATED", cidrMask |-> 24] >>

\* The public readonly fields of a network stack class.
PublicOutputs(rev) ==
  IF rev = "base"
  THEN {"vpc", "dbSecurityGroup", "ecsSecurityGroup", "albSecurityGroup"}
  ELSE IF rev \in {"p001", "p004"}
  THEN {"vpc", "dbSecurityGroup", "ecsSecurityGroup", "albSecurityGroup",
        "bedrockGatewaySecurityGroup", "alb", "targetGroup"}
  ELSE {}

\* Variant: the database rule is written before the ECS group it names exists.
BaseVPCInfrastructureRuleFirst ==
  << New("vpc", "InfraVpc", "Vpc", {}),
     New("dbSecurityGroup", "DBSecurityGroup", "SecurityGroup", {"vpc"}),
     Rule("dbSecurityGroup", "ecsSecurityGroup", 5432),
     New("ecsSecurityGroup", "ECSSecurityGroup", "SecurityGroup", {"vpc"}),
     New("albSecurityGroup", "AlbSecurityGroup", "SecurityGroup", {"vpc"}),
     Rule("albSecurityGroup", "anyIpv4", 80),
     Rule("ecsSecurityGroup", "albSecurityGroup", 8080) >>

\* Variant: the ALB group also admits the database group, closing a cycle.
BaseVPCInfrastructureCyclic ==
  << New("vpc", "InfraVpc", "Vpc", {}),
     New("dbSecurityGroup", "DBSecurityGroup", "SecurityGroup", {"vpc"}),
     New("ecsSecurityGroup", "ECSSecurityGroup", "SecurityGroup", {"vpc"}),
     New("albSecurityGroup", "AlbSecurityGroup", "SecurityGroup", {"vpc"}),
     Rule("albSecurityGroup", "anyIpv4", 80),
     Rule("ecsSecurityGroup", "albSecurityGroup", 8080),
     Rule("dbSecurityGroup", "ecsSecurityGroup", 5432),
     Rule("albSecurityGroup", "dbSecurityGroup", 80) >>

\* Variant: the database group admits any IPv4 address.
BaseVPCInfrastructureOpenDatabase ==
  << New("vpc", "InfraVpc", "Vpc", {}),
     New("dbSecurityGroup", "DBSecurityGroup", "SecurityGroup", {"vpc"}),
     New("ecsSecurityGroup", "ECSSecurityGroup", "SecurityGroup", {"vpc"}),
     New("albSecurityGroup", "AlbSecurityGroup", "SecurityGroup", {"vpc"}),
     Rule("albSecurityGroup", "anyIpv4", 80),
     Rule("ecsSecurityGroup", "albSecurityGroup", 8080),
     Rule("dbSecurityGroup", "anyIpv4", 5432) >>

BaseVPCInfrastructure ==
  << New("vpc", "InfraVpc", "Vpc", {}),
     New("dbSecurityGroup", "DBSecurityGroup", "SecurityGroup", {"vpc"}),
     New("ecsSecurityGroup", "ECSSecurityGroup", "SecurityGroup", {"vpc"}),
     New("albSecurityGroup", "AlbSecurityGroup", "SecurityGroup", {"vpc"}),
     Rule("albSecurityGroup", "anyIpv4", 80),
     Rule("ecsSecurityGroup", "albSecurityGroup", 8080),
     Rule("dbSecurityGroup", "ecsSecurityGroup", 5432) >>

BaselineVPCInfrastructure(vpcId) ==
  << New("vpc", vpcId, "Vpc", {}),
     New("dbSecurityGroup", "DBSecurityGroup", "SecurityGroup", {"vpc"}),
     New("ecsSecurityGroup", "ECSSecurityGroup", "SecurityGroup", {"vpc"}),
     New("albSecurityGroup", "AlbSecurityGroup", "SecurityGroup", {"vpc"}),
     New("bedrockGatewaySecurityGroup", "BedrockGatewaySecurityGroup",
         "SecurityGroup", {"vpc"}),
     Rule("albSecurityGroup", "anyIpv4", 80),
     Rule("ecsSecurityGroup", "albSecurityGroup", 8080),
     Rule("bedrockGatewaySecurityGroup", "ecsSecurityGroup", 80),
     Rule("dbSecurityGroup", "ecsSecurityGroup", 5432),
     New("alb", "OpenWebUIALB", "LoadBalancer", {"vpc", "albSecurityGroup"}),
     New("targetGroup", "OpenWebUITargetGroup", "TargetGroup", {"vpc"}),
     New("listener", "OpenWebUIListener", "Listener", {"alb", "targetGroup"}),
     Output("VpcId", "vpcId", {"vpc"}),
     Output("PublicSubnets", "publicSubnetIds", {"vpc"}),
     Output("PrivateSubnets", "privateSubnetIds", {"vpc"}),
     Output("AlbDnsName", "albDnsName", {"alb"}) >>

\* The single-stack revisions (part_002, part_003).
BaselineInfrastructure002 ==
  << New("infraVpc", "InfraVpc", "Vpc", {}),
     New("dbSecurityGroup", "DBSecurityGroup", "SecurityGroup", {"infraVpc"}),
     New("dbInstance", "OpenWebUIDatabase", "DatabaseInstance",
         {"infraVpc", "dbSecurityGroup"}),
     New("ecrRepository", "ecrRepository", "Repository", {}),
     Output("EcrRepositoryUri", "ecrRepositoryUri", {"ecrRepository"}),
     New("ecsSecurityGroup", "ECSSecurityGroup", "SecurityGroup", {"infraVpc"}),
     Rule("dbSecurityGroup", "ecsSecurityGroup", 5432),
     Output("DBEndpoint", "dbEndpoint", {"dbInstance"}),
     New("albSecurityGroup", "AlbSecurityGroup", "SecurityGroup", {"infraVpc"}),
     Rule("albSecurityGroup", "anyIpv4", 80),
     New("alb", "OpenWebUIALB", "LoadBalancer", {"infraVpc", "albSecurityGroup"}),
     New("targetGroup", "OpenWebUITargetGroup", "TargetGroup", {"infraVpc"}),
     New("listener", "Listener", "Listener", {"alb", "targetGroup"}),
     New("openWebUITaskDef", "OpenWebUITask", "TaskDefinition", {}),
     Container("openWebUIContainer", "OpenWebUI", "openWebUITaskDef",
               {"ecrRepository", "dbInstance"}),
     New("cluster", "OpenWebUICluster", "Cluster", {"infraVpc"}),
     New("openWebUIService", "OpenWebUIService", "Service",
         {"cluster", "openWebUITaskDef", "ecsSecurityGroup"}),
     Attach("openWebUIService", "targetGroup"),
     Rule("ecsSecurityGroup", "albSecurityGroup", 8080),
     Output("AlbDnsName", "albDnsName", {"alb"}) >>

BaselineInfrastructure003 ==
  << New("infraVpc", "InfraVpc", "Vpc", {}),
     New("dbSecurityGroup", "DBSecurityGroup", "SecurityGroup", {"infraVpc"}),
     New("ecsSecurityGroup", "ECSSecurityGroup", "SecurityGroup", {"infraVpc"}),
     New("albSecurityGroup", "AlbSecurityGroup", "SecurityGroup", {"infraVpc"}),
     Rule("dbSecurityGroup", "ecsSecurityGroup", 5432),
     Rule("albSecurityGroup", "anyIpv4", 80),
     Rule("ecsSecurityGroup", "albSecurityGroup", 8080),
     New("dbInstance", "OpenWebUIDatabase", "DatabaseInstance",
         {"infraVpc", "dbSecurityGroup"}),
     New("ecrRepository", "ecrRepository", "Repository", {}),
     New("alb", "OpenWebUIALB", "LoadBalancer", {"infraVpc", "albSecurityGroup"}),
     New("targetGroup", "OpenWebUITargetGroup", "TargetGroup", {"infraVpc"}),
     New("listener", "Listener", "Listener", {"alb", "targetGroup"}),
     New("taskRole", "OpenWebUITaskRole", "Role", {}),
     New("executionRole", "OpenWebUIExecutionRole", "Role", {}),
     New("openWebUITaskDef", "OpenWebUITask", "TaskDefinition",
         {"taskRole", "executionRole"}),
     Policy("executionRole", "secretsmanager:GetSecretValue", {"dbInstance"}),
     Policy("taskRole", "ssmmessages", {"*"}),
     Policy("taskRole", "logs", {"*"}),
     Container("openWebUIContainer", "OpenWebUI", "openWebUITaskDef",
               {"ecrRepository", "dbInstance"}),
     New("cluster", "OpenWebUICluster", "Cluster", {"infraVpc"}),
     New("openWebUIService", "OpenWebUIService", "Service",
         {"cluster", "openWebUITaskDef", "ecsSecurityGroup"}),
     Attach("openWebUIService", "targetGroup"),
     Output("EcrRepositoryUri", "ecrRepositoryUri", {"ecrRepository"}),
     Output("DBEndpoint", "dbEndpoint", {"dbInstance"}),
     Output("AlbDnsName", "albDnsName", {"alb"}) >>

\* maxImageCount: 5
MaxImageCount == 5

\* lifecycleRules of the ecr.Repository a composition declares
LifecycleRules(c) ==
  IF c.main = "M" THEN << >> ELSE << [maxImageCount |-> MaxImageCount] >>

(***************************************************************************)
(* Database and registry stacks.                                           *)
(***************************************************************************)
DatabaseStackProps == {"vpc", "dbSecurityGroup"}

DatabaseStack ==
  << New("dbInstance", "OpenWebUIDatabase", "DatabaseInstance",
         {"vpc", "dbSecurityGroup"}),
     Output("DBEndpoint", "dbEndpoint", {"dbInstance"}) >>

EcrStack ==
  << New("repository", "ecrRepository", "Repository", {}),
     Output("EcrRepositoryUri", "ecrRepositoryUri", {"repository"}) >>

(***************************************************************************)
(* Compute stack revisions.                                                *)
(***************************************************************************)
EcsRevs == {"lib", "p005", "p006", "p007a", "p007b", "p008", "p009"}

\* The required fields of interface EcsStackProps, per revision.
EcsStackProps(rev) ==
  {"vpc", "ecsSecurityGroup", "albSecurityGroup", "repository", "alb", "targetGroup"}
    \cup (IF rev \in {"p005", "p008", "p009"} THEN {"dbInstance"} ELSE {})
    \cup (IF rev = "p007b" THEN {"bedrockGatewaySecurityGroup"} ELSE {})

EfsClient == "elasticfilesystem:ClientMount,ClientWrite,ClientRootAccess"
EfsExec == "elasticfilesystem:ClientMount,ClientWrite,DescribeMountTargets"
GetSecret == "secretsmanager:GetSecretValue,kms:Decrypt"

\* lib/elastic-container-stack.ts: EFS with the EfsMountTargetCheck marker
EcsStackLib ==
  << New("taskRole", "OpenWebUITaskRole", "Role", {}),
     New("executionRole", "OpenWebUIExecutionRole", "Role", {}),
     Policy("taskRole", EfsClient, {"*"}),
     New("cluster", "OpenWebUICluster", "Cluster", {"vpc"}),
     New("namespace", "OpenWebUINamespace", "Namespace", {"vpc"}),
     New("efsSecurityGroup", "EFSSecurityGroup", "SecurityGroup", {"vpc"}),
     Rule("efsSecurityGroup", "ecsSecurityGroup", 2049),
     NewFs("fileSystem", "OpenWebUIEfs", {"vpc", "efsSecurityGroup"}, "onePerAz"),
     New("mountTargetParam", "EfsMountTargetCheck", "StringParameter", {"fileSystem"}),
     Policy("taskRole", EfsClient, {"fileSystem"}),
     New("accessPoint", "AccessPoint", "AccessPoint", {"fileSystem"}),
     New("openWebUITaskDef", "OpenWebUITask", "TaskDefinition",
         {"taskRole", "executionRole"}),
     Policy("executionRole", EfsExec, {"fileSystem"}),
     Volume("openWebUITaskDef", "WebUIEfsVolume", "fileSystem", "accessPoint"),
     Container("openWebUIContainer", "OpenWebUI", "openWebUITaskDef", {"repository"}),
     Mount("openWebUIContainer", "WebUIEfsVolume"),
     New("openWebUIService", "OpenWebUIService", "Service",
         {"cluster", "openWebUITaskDef", "ecsSecurityGroup", "namespace"}),
     Dep("openWebUIService", "mountTargetParam"),
     Attach("openWebUIService", "targetGroup"),
     Output("FileSystemId", "efsFileSystemId", {"fileSystem"}) >>

\* Variant of part_005: a second addTargets call reusing priority 1.
EcsStack005SamePriority ==
  << New("taskRole", "OpenWebUITaskRole", "Role", {}),
     New("executionRole", "OpenWebUIExecutionRole", "Role", {}),
     New("openWebUITaskDef", "OpenWebUITask", "TaskDefinition",
         {"taskRole", "executionRole"}),
     Policy("executionRole", GetSecret, {"dbInstance"}),
     Container("openWebUIContainer", "OpenWebUI", "openWebUITaskDef",
               {"repository", "dbInstance"}),
     New("cluster", "OpenWebUICluster", "Cluster", {"vpc"}),
     New("service", "OpenWebUIService", "Service",
         {"cluster", "openWebUITaskDef", "ecsSecurityGroup"}),
     AddTgts("OpenWebUITarget", "service", 8080, 1),
     AddTgts("OpenWebUIApiTarget", "service", 8080, 1),
     Output("AlbDnsName", "albDnsName", {"alb"}) >>

\* part_005: database-backed service behind a listener rule
EcsStack005 ==
  << New("taskRole", "OpenWebUITaskRole", "Role", {}),
     New("executionRole", "OpenWebUIExecutionRole", "Role", {}),
     New("openWebUITaskDef", "OpenWebUITask", "TaskDefinition",
         {"taskRole", "executionRole"}),
     Policy("executionRole", GetSecret, {"dbInstance"}),
     Container("openWebUIContainer", "OpenWebUI", "openWebUITaskDef",
               {"repository", "dbInstance"}),
     New("cluster", "OpenWebUICluster", "Cluster", {"vpc"}),
     New("service", "OpenWebUIService", "Service",
         {"cluster", "openWebUITaskDef", "ecsSecurityGroup"}),
     AddTgts("OpenWebUITarget", "service", 8080, 1),
     Output("AlbDnsName", "albDnsName", {"alb"}) >>

\* part_006: EFS without the marker parameter
EcsStack006 ==
  << New("taskRole", "OpenWebUITaskRole", "Role", {}),
     New("executionRole", "OpenWebUIExecutionRole", "Role", {}),
     Policy("taskRole", EfsClient, {"*"}),
     New("cluster", "OpenWebUICluster", "Cluster", {"vpc"}),
     New("namespace", "OpenWebUINamespace", "Namespace", {"vpc"}),
     New("efsSecurityGroup", "EFSSecurityGroup", "SecurityGroup", {"vpc"}),
     Rule("efsSecurityGroup", "ecsSecurityGroup", 2049),
     NewFs("fileSystem", "OpenWebUIEfs", {"vpc", "efsSecurityGroup"}, "all"),
     Policy("taskRole", EfsClient, {"fileSystem"}),
     New("accessPoint", "AccessPoint", "AccessPoint", {"fileSystem"}),
     New("openWebUITaskDef", "OpenWebUITask", "TaskDefinition",
         {"taskRole", "executionRole"}),
     Policy("executionRole", EfsExec, {"fileSystem"}),
     Volume("openWebUITaskDef", "WebUIEfsVolume", "fileSystem", "accessPoint"),
     Container("openWebUIContainer", "OpenWebUI", "openWebUITaskDef", {"repository"}),
     Mount("openWebUIContainer", "WebUIEfsVolume"),
     New("openWebUIService", "OpenWebUIService", "Service",
         {"cluster", "openWebUITaskDef", "ecsSecurityGroup", "namespace"}),
     Attach("openWebUIService", "targetGroup"),
     Output("FileSystemId", "efsFileSystemId", {"fileSystem"}),
     Output("AlbDnsName", "albDnsName", {"alb"}) >>

\* part_007, first revision: explicit CfnMountTarget per private subnet
EcsStack007a ==
  << New("taskRole", "OpenWebUITaskRole", "Role", {}),
     New("executionRole", "OpenWebUIExecutionRole", "Role", {}),
     New("cluster", "OpenWebUICluster", "Cluster", {"vpc"}),
     New("namespace", "OpenWebUINamespace", "Namespace", {"vpc"}),
     NewFs("fileSystem", "OpenWebUIEfs", {"vpc"}, "default"),
     ForEachMt("EFSMountTarget", "fileSystem", "efsSecurityGroup"),
     New("accessPoint", "AccessPoint", "AccessPoint", {"fileSystem"}),
     New("efsSecurityGroup", "EFSSecurityGroup", "SecurityGroup", {"vpc"}),
     Rule("efsSecurityGroup", "ecsSecurityGroup", 2049),
     New("openWebUITaskDef", "OpenWebUITask", "TaskDefinition",
         {"taskRole", "executionRole"}),
     Policy("executionRole", EfsExec, {"fileSystem"}),
     Volume("openWebUITaskDef", "WebUIEfsVolume", "fileSystem", "accessPoint"),
     Container("openWebUIContainer", "OpenWebUI", "openWebUITaskDef", {"repository"}),
     Mount("openWebUIContainer", "WebUIEfsVolume"),
     New("openWebUIService", "OpenWebUIService", "Service",
         {"cluster", "openWebUITaskDef", "ecsSecurityGroup", "namespace"}),
     AddTgts("OpenWebUITarget", "openWebUIService", 8080, 1),
     Output("AlbDnsName", "albDnsName", {"alb"}) >>

\* part_007, second revision: EFS with marker, plus the Bedrock gateway service
EcsStack007b ==
  << New("taskRole", "OpenWebUITaskRole", "Role", {}),
     New("executionRole", "OpenWebUIExecutionRole", "Role", {}),
     Policy("taskRole", EfsClient, {"*"}),
     New("cluster", "OpenWebUICluster", "Cluster", {"vpc"}),
     New("namespace", "OpenWebUINamespace", "Namespace", {"vpc"}),
     New("bedrockNamespace", "BedrockNamespace", "Namespace", {"vpc"}),
     New("efsSecurityGroup", "EFSSecurityGroup", "SecurityGroup", {"vpc"}),
     Rule("efsSecurityGroup", "ecsSecurityGroup", 2049),
     NewFs("fileSystem", "OpenWebUIEfs", {"vpc", "efsSecurityGroup"}, "onePerAz"),
     New("mountTargetParam", "EfsMountTargetCheck", "StringParameter", {"fileSystem"}),
     Policy("taskRole", EfsClient, {"fileSystem"}),
     New("accessPoint", "AccessPoint", "AccessPoint", {"fileSystem"}),
     New("openWebUITaskDef", "OpenWebUITask", "TaskDefinition",
         {"taskRole", "executionRole"}),
     Policy("executionRole", EfsExec, {"fileSystem"}),
     Volume("openWebUITaskDef", "OpenWebUIEFSVolume", "fileSystem", "accessPoint"),
     Container("openWebUIContainer", "OpenWebUI", "openWebUITaskDef", {"repository"}),
     Mount("openWebUIContainer", "OpenWebUIEFSVolume"),
     New("openWebUIService", "OpenWebUIService", "Service",
         {"cluster", "openWebUITaskDef", "ecsSecurityGroup", "namespace"}),
     Dep("openWebUIService", "mountTargetParam"),
     Attach("openWebUIService", "targetGroup"),
     New("bedrockTaskRole", "BedrockAccessGatewayTaskRole", "Role", {}),
     New("bedrockExecutionRole", "BedrockAccessGatewayExecutionRole", "Role", {}),
     New("bedrockTaskDef", "BedrockAccessGatewayTaskDef", "TaskDefinition",
         {"bedrockTaskRole", "bedrockExecutionRole"}),
     Container("bedrockContainer", "BedrockAccessGatewayContainer", "bedrockTaskDef",
               {"repository"}),
     New("bedrockService", "BedrockAccessGatewayService", "Service",
         {"cluster", "bedrockTaskDef", "bedrockGatewaySecurityGroup",
          "bedrockNamespace"}),
     Output("FileSystemId", "efsFileSystemId", {"fileSystem"}) >>

\* part_008: DATABASE_URL kept in a secret of its own
EcsStack008 ==
  << New("databaseUrlSecret", "DatabaseUrlSecret", "Secret", {"dbInstance"}),
     New("taskRole", "OpenWebUITaskRole", "Role", {}),
     New("executionRole", "OpenWebUIExecutionRole", "Role", {}),
     New("openWebUITaskDef", "OpenWebUITask", "TaskDefinition",
         {"taskRole", "executionRole"}),
     Policy("executionRole", GetSecret, {"dbInstance", "databaseUrlSecret"}),
     Container("openWebUIContainer", "OpenWebUI", "openWebUITaskDef",
               {"repository", "databaseUrlSecret"}),
     New("cluster", "OpenWebUICluster", "Cluster", {"vpc"}),
     New("service", "OpenWebUIService", "Service",
         {"cluster", "openWebUITaskDef", "ecsSecurityGroup"}),
     AddTgts("OpenWebUITarget", "service", 8080, 1),
     Output("AlbDnsName", "albDnsName", {"alb"}) >>

\* part_009: OpenWebUI and Ollama services
EcsStack009 ==
  << New("taskRole", "OpenWebUITaskRole", "Role", {}),
     New("executionRole", "OpenWebUIExecutionRole", "Role", {}),
     New("cluster", "OpenWebUICluster", "Cluster", {"vpc"}),
     New("namespace", "OpenWebUINamespace", "Namespace", {"vpc"}),
     New("openWebUITaskDef", "OpenWebUITask", "TaskDefinition",
         {"taskRole", "executionRole"}),
     Policy("executionRole", GetSecret, {"dbInstance"}),
     Container("openWebUIContainer", "OpenWebUI", "openWebUITaskDef",
               {"repository", "dbInstance"}),
     New("openWebUIService", "OpenWebUIService", "Service",
         {"cluster", "openWebUITaskDef", "ecsSecurityGroup", "namespace"}),
     New("ollamaTaskDef", "OllamaTask", "TaskDefinition",
         {"taskRole", "executionRole"}),
     Container("ollamaContainer", "Ollama", "ollamaTaskDef", {}),
     New("ollamaService", "OllamaService", "Service",
         {"cluster", "ollamaTaskDef", "ecsSecurityGroup", "namespace"}),
     AddTgts("OpenWebUITarget", "openWebUIService", 8080, 1),
     Output("AlbDnsName", "albDnsName", {"alb"}) >>

EcsStack(rev) ==
  CASE rev = "lib" -> EcsStackLib
    [] rev = "p005" -> EcsStack005
    [] rev = "p006" -> EcsStack006
    [] rev = "p007a" -> EcsStack007a
    [] rev = "p007b" -> EcsStack007b
    [] rev = "p008" -> EcsStack008
    [] rev = "p009" -> EcsStack009

NetworkStack(rev) ==
  CASE rev = "base" -> BaseVPCInfrastructure
    [] rev = "p001" -> BaselineVPCInfrastructure("InfraVpc")
    [] rev = "p004" -> BaselineVPCInfrastructure("baseInfraVPC")
    [] rev = "p002" -> BaselineInfrastructure002
    [] rev = "p003" -> BaselineInfrastructure003

(***************************************************************************)
(* bin/main.ts: the composition.                                           *)
(***************************************************************************)
StackNames ==
  {"BaselineInfrastructure", "VpcStack", "EcrStack", "DatabaseStack", "EcsStack"}

\* A configuration: which main is run, which revision of the network stack sits at
\* lib/base-Infrastructure-stack.ts and which revision of the compute stack at
\* lib/elastic-container-stack.ts.
\*   "A"  main.ts 1-13: the network stack alone
\*   "M"  part_000: the single-stack BaselineInfrastructure
\*   "B"  main.ts 14-49 as written: network and registry stacks
\*   "B4" main.ts 14-49 with its database/compute block enabled
Configs ==
  {[main |-> "A", net |-> "base", ecs |-> "none"]}
    \cup {[main |-> "M", net |-> r, ecs |-> "none"] : r \in MonoRevs}
    \cup {[main |-> "B", net |-> r, ecs |-> "none"] : r \in NetRevs}
    \cup {[main |-> "B4", net |-> r, ecs |-> e] : r \in NetRevs, e \in EcsRevs}

MainStacks(c) ==
  CASE c.main \in {"A", "M"} -> << [name |-> "BaselineInfrastructure", cls |-> "net"] >>
    [] c.main = "B" -> << [name |-> "VpcStack", cls |-> "net"],
                          [name |-> "EcrStack", cls |-> "ecr"] >>
    [] c.main = "B4" -> << [name |-> "VpcStack", cls |-> "net"],
                           [name |-> "EcrStack", cls |-> "ecr"],
                           [name |-> "DatabaseStack", cls |-> "db"],
                           [name |-> "EcsStack", cls |-> "ecs"] >>

\* Variant: the compute stack's dependency on the database stack is not declared.
MainDepsWithoutDatabase(c) ==
  IF c.main = "B4"
  THEN << <<"DatabaseStack", "VpcStack">>,
          <<"EcsStack", "EcrStack">> >>
  ELSE << >>

\* dbStack.addDependency(vpc); ecsStack.addDependency(dbStack); ecsStack.addDependency(ecrStack)
MainDeps(c) ==
  IF c.main = "B4"
  THEN << <<"DatabaseStack", "VpcStack">>,
          <<"EcsStack", "DatabaseStack">>,
          <<"EcsStack", "EcrStack">> >>
  ELSE << >>

StackBody(c, i) ==
  LET cls == MainStacks(c)[i].cls IN
  CASE cls = "net" -> NetworkStack(c.net)
    [] cls = "ecr" -> EcrStack
    [] cls = "db" -> DatabaseStack
    [] cls = "ecs" -> EcsStack(c.ecs)

\* The non-optional fields of the props interface of stack i.
Required(c, i) ==
  LET cls == MainStacks(c)[i].cls IN
  CASE cls = "db" -> DatabaseStackProps
    [] cls = "ecs" -> EcsStackProps(c.ecs)
    [] OTHER -> {}

\* The stack whose public field a props key is taken from at the call site.
Producer(h) ==
  CASE h = "dbInstance" -> "DatabaseStack"
    [] h = "repository" -> "EcrStack"
    [] OTHER -> "VpcStack"

\* The public readonly fields a stack exposes.
Exposed(c, name) ==
  CASE name = "VpcStack" -> PublicOutputs(c.net)
    [] name = "EcrStack" -> {"repository"}
    [] name = "DatabaseStack" -> {"dbInstance"}
    [] OTHER -> {}

\* The props object the call site builds: key h is given producer.h.
Passed(c, i) == {h \in Required(c, i) : h \in Exposed(c, Producer(h))}

\* The type checker: stack instantiations whose props object lacks a required key.
TypeErrors(c) == {i \in 1..Len(MainStacks(c)) : ~(Required(c, i) \subseteq Passed(c, i))}

(***************************************************************************)
(* The VPC's subnets.                                                      *)
(***************************************************************************)
PrivateGroups(rev) ==
  SelectSeq(SubnetConfiguration(rev), LAMBDA g : g.subnetType = "PRIVATE_WITH_EGRESS")

\* vpc.privateSubnets: group by group, one subnet per availability zone
PrivateSubnets(rev) ==
  [k \in 1..(Len(PrivateGroups(rev)) * NumAzs) |->
     [name |-> PrivateGroups(rev)[((k - 1) \div NumAzs) + 1].name,
      az |-> ((k - 1) % NumAzs) + 1]]

RECURSIVE RetainOnePerAz(_)
RetainOnePerAz(subs) ==
  IF subs = << >> THEN << >>
  ELSE LET front == RetainOnePerAz(SubSeq(subs, 1, Len(subs) - 1))
           last == subs[Len(subs)]
       IN IF \E j \in 1..Len(front) : front[j].az = last.az
          THEN front ELSE Append(front, last)

\* Variant: the subnet selection differs between two runs on the same source.
SelectSubnetsUnstable(rev, opt) ==
  IF round = 1 THEN PrivateSubnets(rev) ELSE RetainOnePerAz(PrivateSubnets(rev))

\* vpc.selectSubnets(vpcSubnets) for the file system's mount targets; a file system
\* given no vpcSubnets selects with onePerAz
SelectSubnets(rev, opt) ==
  IF opt \in {"onePerAz", "default"}
  THEN RetainOnePerAz(PrivateSubnets(rev)) ELSE PrivateSubnets(rev)

(***************************************************************************)
(* The deploy workflow's job.                                              *)
(***************************************************************************)
\* on: pull_request (branches main, types closed) and workflow_dispatch
Events == {"pull_request_merged", "pull_request_closed", "workflow_dispatch"}

\* Variant: the job has no condition.
JobConditionAbsent(event) == event \in Events

\* if: github.event.pull_request.merged == true
JobCondition(event) == event = "pull_request_merged"

Step(name, continueOnError) == [name |-> name, continueOnError |-> continueOnError]

\* the steps with the error of cdk synth tolerated
StepsSynthTolerated ==
  << Step("Checkout repository", FALSE),
     Step("Setup Node.js", FALSE),
     Step("Configure AWS credentials", FALSE),
     Step("Install dependencies", FALSE),
     Step("Run tests (if you have any)", TRUE),
     Step("Bootstrap CDK", FALSE),
     Step("CDK Synth", TRUE),
     Step("CDK Diff", FALSE),
     Step("CDK Deploy", FALSE) >>

\* the steps with the unit tests' error not tolerated
StepsTestsRequired ==
  << Step("Checkout repository", FALSE),
     Step("Setup Node.js", FALSE),
     Step("Configure AWS credentials", FALSE),
     Step("Install dependencies", FALSE),
     Step("Run tests (if you have any)", FALSE),
     Step("Bootstrap CDK", FALSE),
     Step("CDK Synth", FALSE),
     Step("CDK Diff", FALSE),
     Step("CDK Deploy", FALSE) >>

\* steps: of the deploy job, in order
Steps ==
  << Step("Checkout repository", FALSE),
     Step("Setup Node.js", FALSE),
     Step("Configure AWS credentials", FALSE),
     Step("Install dependencies", FALSE),
     Step("Run tests (if you have any)", TRUE),
     Step("Bootstrap CDK", FALSE),
     Step("CDK Synth", FALSE),
     Step("CDK Diff", FALSE),
     Step("CDK Deploy", FALSE) >>

StepIndex(name) == CHOOSE i \in 1..Len(Steps) : Steps[i].name = name

\* a run of the job: the step it is at and the exit codes of the steps run so far
NewJob(event) ==
  [event |-> event, step |-> 1, exit |-> << >>,
   outcome |-> IF JobCondition(event) THEN "running" ELSE "skipped"]

AtStep(name) == job.outcome = "running" /\ Steps[job.step].name = name

\* The current step ends with an exit code.  A non-zero code fails the job and no
\* later step runs, unless the step has continue-on-error.
StepExit(j, code) ==
  IF code # 0 /\ ~Steps[j.step].continueOnError
  THEN [j EXCEPT !.exit = Append(@, code), !.outcome = "failure"]
  ELSE [j EXCEPT !.exit = Append(@, code),
                 !.step = @ + 1,
                 !.outcome = IF j.step = Len(Steps) THEN "success" ELSE "running"]

(***************************************************************************)
(* State.                                                                  *)
(***************************************************************************)
EmptyApp ==
  [stacks |-> {}, res |-> {}, edges |-> {}, rules |-> {}, lrules |-> {},
   targets |-> {}, outputs |-> {}, policies |-> {}, mts |-> {}, vols |-> {},
   stackDeps |-> {}]

\* the repository's content: image ids in push order
NoImages == [held |-> << >>, pushed |-> 0, applied |-> FALSE]

NoErr == [type |-> "", k |-> "", s |-> "", pc |-> 0]

Init ==
  /\ cfg \in Configs
  /\ round = 1
  /\ phase = "compile"
  /\ stk = 0
  /\ pc = 0
  /\ env = {}
  /\ app = EmptyApp
  /\ err = NoErr
  /\ first = EmptyApp
  /\ diff = {}
  /\ live = {}
  /\ sstate = [s \in StackNames |-> "none"]
  /\ ops = 0
  /\ images = NoImages
  /\ \E event \in Events : job = NewJob(event)

NumStacks == Len(MainStacks(cfg))
Body == StackBody(cfg, stk)
InBody == phase = "construct" /\ stk >= 1 /\ pc <= Len(Body)
Cur == Body[pc]
S == MainStacks(cfg)[stk].name

IsLocal(h) == \E e \in env : e.s = S /\ e.h = h
IsProp(h) == h \in Required(cfg, stk) /\ \E e \in env : e.s = Producer(h) /\ e.h = h
Bound(h) == IsLocal(h) \/ IsProp(h)
Node(h) ==
  IF IsLocal(h) THEN (CHOOSE e \in env : e.s = S /\ e.h = h).n
  ELSE (CHOOSE e \in env : e.s = Producer(h) /\ e.h = h).n
Unbound == {h \in Cur.uses : ~Bound(h)}

\* A const read before its declaration throws ReferenceError; a member read of an
\* undefined props field throws TypeError.  Either aborts main before app.synth().
DeclaredLater(h) ==
  \E j \in (pc + 1)..Len(Body) : Body[j].h = h /\ Body[j].k \in {"new", "newfs", "container"}

Throw ==
  /\ phase' = "failed"
  /\ err' = [type |-> IF \E h \in Unbound : DeclaredLater(h)
                      THEN "ReferenceError" ELSE "TypeError",
             k |-> Cur.k, s |-> S, pc |-> pc]
  /\ job' = StepExit(job, 1)
  /\ UNCHANGED <<cfg, round, stk, pc, env, app, first, diff, live, sstate, ops, images>>

Advance(newEnv, newApp) ==
  /\ env' = newEnv
  /\ app' = newApp
  /\ pc' = pc + 1
  /\ UNCHANGED <<cfg, round, phase, stk, err, first, diff, live, sstate, ops, images, job>>

(***************************************************************************)
(* Running main.                                                           *)
(***************************************************************************)
\* tsc: a props object lacking a required key does not compile; nothing runs.
Compile ==
  /\ phase = "compile"
  /\ AtStep("CDK Synth")
  /\ IF TypeErrors(cfg) # {}
     THEN /\ phase' = "failed"
          /\ job' = StepExit(job, 1)
          /\ err' = [type |-> "CompileError", k |-> "props",
                     s |-> MainStacks(cfg)[CHOOSE i \in TypeErrors(cfg) :
                                             \A j \in TypeErrors(cfg) : i <= j].name,
                     pc |-> 0]
     ELSE /\ phase' = "construct"
          /\ err' = err
          /\ job' = job
  /\ UNCHANGED <<cfg, round, stk, pc, env, app, first, diff, live, sstate, ops, images>>

\* new XStack(app, id, props): super(scope, id, props) registers the stack
NewStack ==
  /\ phase = "construct"
  /\ stk < NumStacks
  /\ IF stk = 0 THEN TRUE ELSE pc > Len(Body)
  /\ stk' = stk + 1
  /\ pc' = 1
  /\ app' = [app EXCEPT !.stacks = @ \cup {MainStacks(cfg)[stk + 1].name}]
  /\ UNCHANGED <<cfg, round, phase, env, err, first, diff, live, sstate, ops, images, job>>

NewResource ==
  /\ InBody /\ Cur.k = "new"
  /\ IF Unbound # {} THEN Throw
     ELSE LET n == <<S, Cur.id>> IN
          Advance(env \cup {[s |-> S, h |-> Cur.h, n |-> n]},
                  [app EXCEPT !.res = @ \cup {[n |-> n, ty |-> Cur.ty]},
                              !.edges = @ \cup {<<n, Node(u)>> : u \in Cur.uses}])

\* efs.FileSystem: the file system and one mount target per selected subnet, each
\* in the given security group (or one the construct makes for itself).
NewFileSystem ==
  /\ InBody /\ Cur.k = "newfs"
  /\ IF Unbound # {} THEN Throw
     ELSE LET n == <<S, Cur.id>>
              given == Cur.uses \ {"vpc"}
              own == <<S, Cur.id \o "/EfsSecurityGroup">>
              sg == IF given = {} THEN own ELSE Node(CHOOSE h \in given : TRUE)
              subs == SelectSubnets(cfg.net, Cur.opt)
              mt(i) == <<S, Cur.id \o "/EfsMountTarget" \o ToString(i)>>
              I == 1..Len(subs)
          IN Advance(env \cup {[s |-> S, h |-> Cur.h, n |-> n]},
               [app EXCEPT
                  !.res = @ \cup {[n |-> n, ty |-> "FileSystem"]}
                            \cup {[n |-> mt(i), ty |-> "MountTarget"] : i \in I}
                            \cup (IF given = {} THEN {[n |-> own, ty |-> "SecurityGroup"]}
                                  ELSE {}),
                  !.edges = @ \cup {<<mt(i), n>> : i \in I}
                              \cup {<<mt(i), sg>> : i \in I}
                              \cup {<<mt(i), Node("vpc")>> : i \in I}
                              \cup (IF given = {} THEN {<<own, Node("vpc")>>} ELSE {}),
                  !.mts = @ \cup {[n |-> mt(i), fs |-> n, sub |-> subs[i].name,
                                   az |-> subs[i].az] : i \in I}])

\* props.vpc.privateSubnets.forEach((subnet, index) =>
\*   new efs.CfnMountTarget(this, `EFSMountTarget${index}`, {...}))
ForEachMountTarget ==
  /\ InBody /\ Cur.k = "foreachmt"
  /\ LET subs == PrivateSubnets(cfg.net)
         mt(i) == <<S, Cur.id \o ToString(i - 1)>>
         I == 1..Len(subs)
         fs == CHOOSE h \in Cur.uses \ {"vpc", Cur.peer} : TRUE
     IN IF I # {} /\ Unbound # {} THEN Throw
        ELSE Advance(env,
               [app EXCEPT
                  !.res = @ \cup {[n |-> mt(i), ty |-> "MountTarget"] : i \in I},
                  !.edges = @ \cup {<<mt(i), Node(fs)>> : i \in I}
                              \cup {<<mt(i), Node(Cur.peer)>> : i \in I}
                              \cup {<<mt(i), Node("vpc")>> : i \in I},
                  !.mts = @ \cup {[n |-> mt(i), fs |-> Node(fs), sub |-> subs[i].name,
                                   az |-> subs[i].az] : i \in I}])

AnyIpv4 == <<"cidr", "0.0.0.0/0">>

\* Variant: a rule between two groups is written on the source group.
AddIngressRuleOnPeer ==
  /\ InBody /\ Cur.k = "rule"
  /\ IF Unbound # {} THEN Throw
     ELSE Advance(env,
            [app EXCEPT !.rules = @ \cup
               {IF Cur.peer = "anyIpv4"
                THEN [sg |-> Node(Cur.h), peer |-> AnyIpv4, port |-> Cur.port]
                ELSE [sg |-> Node(Cur.peer), peer |-> Node(Cur.h), port |-> Cur.port]}])

AddIngressRule ==
  /\ InBody /\ Cur.k = "rule"
  /\ IF Unbound # {} THEN Throw
     ELSE Advance(env,
            [app EXCEPT !.rules = @ \cup
               {[sg |-> Node(Cur.h),
                 peer |-> IF Cur.peer = "anyIpv4" THEN AnyIpv4 ELSE Node(Cur.peer),
                 port |-> Cur.port]}])

AddDependency ==
  /\ InBody /\ Cur.k = "dep"
  /\ IF Unbound # {} THEN Throw
     ELSE Advance(env, [app EXCEPT !.edges = @ \cup {<<Node(Cur.h), Node(Cur.peer)>>}])

AttachToApplicationTargetGroup ==
  /\ InBody /\ Cur.k = "attach"
  /\ IF Unbound # {} THEN Throw
     ELSE Advance(env,
            [app EXCEPT !.targets = @ \cup {[tg |-> Node(Cur.peer), svc |-> Node(Cur.h)]},
                        !.edges = @ \cup {<<Node(Cur.h), Node(Cur.peer)>>}])

\* listeners[0] of the load balancer
Listeners(alb) == {r \in app.res : r.ty = "Listener" /\ <<r.n, alb>> \in app.edges}

\* listener.addTargets(id, ...): a target group and a rule in the listener's scope
AddTargets ==
  /\ InBody /\ Cur.k = "addTargets"
  /\ IF Unbound # {} \/ Listeners(Node("alb")) = {} THEN Throw
     ELSE LET L == (CHOOSE r \in Listeners(Node("alb")) : TRUE).n
              tg == <<L[1], L[2] \o "/" \o Cur.id \o "Group">>
              rule == <<L[1], L[2] \o "/" \o Cur.id \o "Rule">>
          IN Advance(env,
               [app EXCEPT
                  !.res = @ \cup {[n |-> tg, ty |-> "TargetGroup"],
                                  [n |-> rule, ty |-> "ListenerRule"]},
                  !.edges = @ \cup {<<rule, L>>, <<rule, tg>>, <<Node(Cur.peer), tg>>},
                  !.lrules = @ \cup {[listener |-> L, rule |-> rule,
                                      priority |-> Cur.prio, tg |-> tg]},
                  !.targets = @ \cup {[tg |-> tg, svc |-> Node(Cur.peer)]}])

CfnOutput ==
  /\ InBody /\ Cur.k = "output"
  /\ IF Unbound # {} THEN Throw
     ELSE Advance(env,
            [app EXCEPT !.outputs = @ \cup
               {[s |-> S, id |-> Cur.id, exportName |-> Cur.opt,
                 value |-> {Node(u) : u \in Cur.uses}]}])

AddToPrincipalPolicy ==
  /\ InBody /\ Cur.k = "policy"
  /\ IF Unbound # {} THEN Throw
     ELSE Advance(env,
            [app EXCEPT !.policies = @ \cup
               {[role |-> Node(Cur.h), actions |-> Cur.ty,
                 resources |-> IF Cur.uses = {Cur.h} THEN {<<"*", "*">>}
                               ELSE {Node(u) : u \in Cur.uses \ {Cur.h}}]}])

AddVolume ==
  /\ InBody /\ Cur.k = "volume"
  /\ IF Unbound # {} THEN Throw
     ELSE Advance(env,
            [app EXCEPT !.vols = @ \cup {[td |-> Node(Cur.h), fs |-> Node(Cur.peer),
                                          name |-> Cur.id, mounted |-> FALSE]},
                        !.edges = @ \cup {<<Node(Cur.h), Node(u)>> : u \in Cur.uses \ {Cur.h}}])

AddContainer ==
  /\ InBody /\ Cur.k = "container"
  /\ IF Unbound # {} THEN Throw
     ELSE LET td == Node(Cur.peer) IN
          Advance(env \cup {[s |-> S, h |-> Cur.h, n |-> td]},
                  [app EXCEPT !.edges = @ \cup {<<td, Node(u)>> : u \in Cur.uses \ {Cur.peer}}])

AddMountPoints ==
  /\ InBody /\ Cur.k = "mount"
  /\ IF Unbound # {} THEN Throw
     ELSE Advance(env,
            [app EXCEPT !.vols =
               {IF v.td = Node(Cur.h) /\ v.name = Cur.id
                THEN [v EXCEPT !.mounted = TRUE] ELSE v : v \in @}])

\* xStack.addDependency(yStack), one call per step, after the last constructor
AddStackDependency ==
  /\ phase = "construct" /\ stk = NumStacks /\ stk >= 1
  /\ pc > Len(Body)
  /\ pc - Len(Body) <= Len(MainDeps(cfg))
  /\ app' = [app EXCEPT !.stackDeps = @ \cup {MainDeps(cfg)[pc - Len(Body)]}]
  /\ pc' = pc + 1
  /\ UNCHANGED <<cfg, round, phase, stk, env, err, first, diff, live, sstate, ops, images, job>>

\* app.synth(): the resource graph is rendered
AppSynth ==
  /\ phase = "construct" /\ stk = NumStacks /\ stk >= 1
  /\ pc = Len(Body) + Len(MainDeps(cfg)) + 1
  /\ phase' = "synthesized"
  /\ job' = StepExit(job, 0)
  /\ UNCHANGED <<cfg, round, stk, pc, env, app, err, first, diff, live, sstate, ops, images>>

(***************************************************************************)
(* The deploy workflow: cdk diff, then cdk deploy --all --force.           *)
(* The provisioning engine creates the resources of a stack in any order   *)
(* that respects the dependency edges, and starts a stack once the stacks  *)
(* it depends on are complete.                                             *)
(***************************************************************************)
\* Variant: logical IDs carry a suffix that changes from run to run.
TemplateNodesRestamped ==
  {<<r.n[1], r.n[2] \o ToString(round)>> : r \in app.res}

TemplateNodes == {r.n : r \in app.res}

\* what the rendered graph adds to or removes from the live state
Changes(template, deployed) ==
  {[op |-> "create", n |-> n] : n \in template \ deployed}
    \cup {[op |-> "delete", n |-> n] : n \in deployed \ template}

\* stacks s depends on: declared edges, and those implied by cross-stack references
StackDependsOn(s) ==
  {d[2] : d \in {e \in app.stackDeps : e[1] = s}}
    \cup {e[2][1] : e \in {x \in app.edges : x[1][1] = s /\ x[2][1] # s}}

CdkDiff ==
  /\ phase = "synthesized"
  /\ AtStep("CDK Diff")
  /\ diff' = Changes(TemplateNodes, live)
  /\ phase' = "deploy"
  /\ sstate' = [s \in StackNames |-> IF s \in app.stacks THEN "pending" ELSE "none"]
  /\ ops' = 0
  /\ job' = StepExit(job, 0)
  /\ UNCHANGED <<cfg, round, stk, pc, env, app, err, first, live, images>>

StartStack(s) ==
  /\ phase = "deploy"
  /\ sstate[s] = "pending"
  /\ \A d \in StackDependsOn(s) : sstate[d] = "complete"
  /\ sstate' = [sstate EXCEPT ![s] = "creating"]
  /\ UNCHANGED <<cfg, round, phase, stk, pc, env, app, err, first, diff, live, ops, images, job>>

\* Variant: the engine creates a stack's resources in any order.
ApplyChangeUnordered(c) ==
  /\ phase = "deploy"
  /\ sstate[c.n[1]] = "creating"
  /\ IF c.op = "create"
     THEN live' = live \cup {c.n}
     ELSE live' = live \ {c.n}
  /\ ops' = ops + 1
  /\ UNCHANGED <<cfg, round, phase, stk, pc, env, app, err, first, diff, sstate, images, job>>

\* one resource operation of the stack's change set
ApplyChange(c) ==
  /\ phase = "deploy"
  /\ sstate[c.n[1]] = "creating"
  /\ IF c.op = "create"
     THEN /\ \A e \in app.edges : e[1] = c.n => e[2] \in live
          /\ live' = live \cup {c.n}
     ELSE live' = live \ {c.n}
  /\ ops' = ops + 1
  /\ UNCHANGED <<cfg, round, phase, stk, pc, env, app, err, first, diff, sstate, images, job>>

FinishStack(s) ==
  /\ phase = "deploy"
  /\ sstate[s] = "creating"
  /\ \A c \in Changes(TemplateNodes, live) : c.n[1] # s
  /\ sstate' = [sstate EXCEPT ![s] = "complete"]
  /\ UNCHANGED <<cfg, round, phase, stk, pc, env, app, err, first, diff, live, ops, images, job>>

DeployDone ==
  /\ phase = "deploy"
  /\ \A s \in app.stacks : sstate[s] = "complete"
  /\ phase' = "converged"
  /\ job' = StepExit(job, 0)
  /\ UNCHANGED <<cfg, round, stk, pc, env, app, err, first, diff, live, sstate, ops, images>>

\* the workflow runs again on unchanged source: main is executed afresh
Rerun ==
  /\ phase = "converged"
  /\ round < MaxRounds
  /\ round' = round + 1
  /\ first' = IF round = 1 THEN app ELSE first
  /\ phase' = "compile"
  /\ stk' = 0
  /\ pc' = 0
  /\ env' = {}
  /\ app' = EmptyApp
  /\ \E event \in Events : job' = NewJob(event)
  /\ UNCHANGED <<cfg, err, diff, live, sstate, ops, images>>

(***************************************************************************)
(* The image repository, once the deploys are done.                        *)
(***************************************************************************)
Repositories == {r.n : r \in {x \in app.res : x.ty = "Repository"}}

\* the images a lifecycle rule of maxImageCount n keeps: the n pushed last
Retain(held, n) ==
  IF Len(held) > n THEN SubSeq(held, Len(held) - n + 1, Len(held)) ELSE held

\* docker push to the deployed repository
PushImage ==
  /\ phase = "converged" /\ round = MaxRounds
  /\ Repositories \cap live # {}
  /\ images.pushed < MaxPushes
  /\ images' = [held |-> Append(images.held, images.pushed + 1),
                pushed |-> images.pushed + 1, applied |-> FALSE]
  /\ UNCHANGED <<cfg, round, phase, stk, pc, env, app, err, first, diff, live, sstate, ops, job>>

\* the registry evaluates the repository's lifecycle policy
ApplyLifecyclePolicy ==
  /\ phase = "converged" /\ round = MaxRounds
  /\ Repositories \cap live # {}
  /\ images.pushed > 0 /\ ~images.applied
  /\ images' = [images EXCEPT
                  !.held = IF LifecycleRules(cfg) = << >> THEN @
                           ELSE Retain(@, LifecycleRules(cfg)[1].maxImageCount),
                  !.applied = TRUE]
  /\ UNCHANGED <<cfg, round, phase, stk, pc, env, app, err, first, diff, live, sstate, ops, job>>

\* a step that is a single command: it ends with exit code 0 or not
RunStep ==
  /\ job.outcome = "running"
  /\ Steps[job.step].name \notin {"CDK Synth", "CDK Diff", "CDK Deploy"}
  /\ \E code \in {0, 1} : job' = StepExit(job, code)
  /\ UNCHANGED <<cfg, round, phase, stk, pc, env, app, err, first, diff, live, sstate, ops,
                 images>>

\* cdk diff or cdk deploy ends with a non-zero exit code (a cloud call failed)
StepFails ==
  /\ \/ phase = "synthesized" /\ AtStep("CDK Diff")
     \/ phase = "deploy" /\ AtStep("CDK Deploy")
  /\ phase' = "aborted"
  /\ job' = StepExit(job, 1)
  /\ UNCHANGED <<cfg, round, stk, pc, env, app, err, first, diff, live, sstate, ops, images>>

StartStacks == \E s \in StackNames : StartStack(s)
ApplyChanges == \E c \in Changes(TemplateNodes, live) : ApplyChange(c)
FinishStacks == \E s \in StackNames : FinishStack(s)

Next ==
  \/ Compile
  \/ NewStack
  \/ NewResource
  \/ NewFileSystem
  \/ ForEachMountTarget
  \/ AddIngressRule
  \/ AddDependency
  \/ AttachToApplicationTargetGroup
  \/ AddTargets
  \/ CfnOutput
  \/ AddToPrincipalPolicy
  \/ AddVolume
  \/ AddContainer
  \/ AddMountPoints
  \/ AddStackDependency
  \/ AppSynth
  \/ CdkDiff
  \/ StartStacks
  \/ ApplyChanges
  \/ FinishStacks
  \/ DeployDone
  \/ Rerun
  \/ PushImage
  \/ ApplyLifecyclePolicy
  \/ RunStep
  \/ StepFails

Spec == Init /\ [][Next]_vars

(***************************************************************************)
(* Properties.                                                             *)
(***************************************************************************)
\* nodes reachable from a set of nodes along one or more edges of E
RECURSIVE ReachFrom(_, _, _)
ReachFrom(E, frontier, seen) ==
  LET nxt == {e[2] : e \in {x \in E : x[1] \in frontier}} \ seen
  IN IF nxt = {} THEN seen ELSE ReachFrom(E, nxt, seen \cup nxt)

Reaches(E, a, b) == b \in ReachFrom(E, {a}, {})

Rendered == phase \in {"synthesized", "deploy", "converged"}

Services == {r.n : r \in {x \in app.res : x.ty = "Service"}}
MountTargetsOf(fs) == {m.n : m \in {x \in app.mts : x.fs = fs}}
\* services whose task definition has a volume of fs mounted into its container
MountingServices(fs) ==
  {s \in Services : \E v \in app.vols : v.fs = fs /\ v.mounted /\ <<s, v.td>> \in app.edges}
MarkerParams == {r.n : r \in {x \in app.res : x.ty = "StringParameter"}}
DependsOn(n) == {e[2] : e \in {x \in app.edges : x[1] = n}}

\* C1: in every rendered graph whose OpenWebUI task definition mounts the EFS file
\* system, the service that runs it has a dependency path to every mount target of
\* that file system.
C1_ServiceDependsOnMountTargets ==
  Rendered =>
    \A v \in app.vols : v.mounted =>
      \A s \in MountingServices(v.fs) :
        \A m \in MountTargetsOf(v.fs) : Reaches(app.edges, s, m)

\* a rendered graph in which a service mounts a file system that has mount targets
C1_MountingServiceRendered ==
  /\ phase = "synthesized"
  /\ \E v \in app.vols :
       v.mounted /\ MountingServices(v.fs) # {} /\ MountTargetsOf(v.fs) # {}

\* C2: in every execution of the engine, the EfsMountTargetCheck parameter exists
\* only once all mount targets of its file system exist, and so does a service that
\* depends on the parameter.
C2_MarkerWaitsForMountTargets ==
  \A p \in MarkerParams :
    /\ p \in live => \A fs \in DependsOn(p) : MountTargetsOf(fs) \subseteq live
    /\ \A s \in Services :
         s \in live /\ p \in DependsOn(s) =>
           \A fs \in DependsOn(p) : MountTargetsOf(fs) \subseteq live

\* the marker parameter is being provisioned for a file system with mount targets
C2_MarkerProvisioned ==
  /\ phase = "deploy"
  /\ \E p \in MarkerParams : p \in live /\ \E fs \in DependsOn(p) : MountTargetsOf(fs) # {}

\* handles declared by the statements before statement j of a constructor body
DeclaredBefore(B, j) ==
  {B[k].h : k \in {x \in 1..(j - 1) : B[x].k \in {"new", "newfs", "container"}}}

\* C3: whenever an addIngressRule call executes, the group receiving the rule and
\* the source group it names are already constructed; no constructor writes a rule
\* ahead of the declaration of a group it names, and no rule call ever throws.
C3_NoForwardReferenceInRules ==
  /\ InBody /\ Cur.k = "rule" => Unbound = {}
  /\ err.k # "rule"
  /\ \A r \in app.rules :
       r.sg \in {x.n : x \in app.res} /\ (r.peer = AnyIpv4 \/ r.peer \in {x.n : x \in app.res})
  /\ \A i \in 1..Len(MainStacks(cfg)) :
       \A j \in 1..Len(StackBody(cfg, i)) :
         StackBody(cfg, i)[j].k = "rule" =>
           StackBody(cfg, i)[j].uses
             \subseteq Required(cfg, i) \cup DeclaredBefore(StackBody(cfg, i), j)

\* the EFS group's rule, naming the ECS group of the network stack, has executed
C3_CrossStackRuleAdded ==
  /\ phase = "synthesized"
  /\ \E r \in app.rules : r.sg[1] = "EcsStack" /\ r.peer[1] = "VpcStack" /\ r.port = 2049

\* C4: every required input of every consuming stack is a public output of the
\* stack it is taken from.
C4_RequiredInputsHaveProducers ==
  \A i \in 1..Len(MainStacks(cfg)) :
    \A h \in Required(cfg, i) : h \in Exposed(cfg, Producer(h))

\* the database stack's inputs are all produced while the compute stack's are not
C4_OrphanedInput ==
  /\ cfg.main = "B4"
  /\ DatabaseStackProps \subseteq Exposed(cfg, "VpcStack")
  /\ TypeErrors(cfg) # {}

\* C5: with a required input absent the composition ends in a structural error with
\* no resource declared and no provisioning operation started; with every required
\* input present the composition does not fail.
C5_FailFastOrSucceed ==
  /\ TypeErrors(cfg) # {} /\ phase # "compile" =>
       /\ phase = "failed" /\ err.type = "CompileError"
       /\ app.res = {} /\ live = {} /\ ops = 0
  /\ TypeErrors(cfg) = {} => phase # "failed"

\* a composition rejected for a missing required input
C5_RejectedForMissingInput ==
  phase = "failed" /\ err.type = "CompileError" /\ err.s = "EcsStack"

\* references from a resource or rule of one stack to a resource of another
CrossStackReferences ==
  {<<e[1][1], e[2][1]>> : e \in {x \in app.edges : x[1][1] # x[2][1]}}
    \cup {<<r.sg[1], r.peer[1]>> :
            r \in {x \in app.rules : x.peer # AnyIpv4 /\ x.sg[1] # x.peer[1]}}

C9_ListenerPrioritiesDistinct ==
  \A a \in app.lrules : \A b \in app.lrules :
    a.listener = b.listener /\ a.priority = b.priority => a = b

\* every stack is constructed and a listener of the network stack carries a rule
C9_ListenerHasRule ==
  /\ phase = "synthesized"
  /\ \E a \in app.lrules : a.listener[1] = "VpcStack" /\ a.priority = 1

\* permission edges: source group -> group receiving the ingress rule
SgEdges == {<<r.peer, r.sg>> : r \in {x \in app.rules : x.peer # AnyIpv4}}

\* C10: no security group reaches itself through ingress-rule edges, the EFS group
\* of the compute stack included.
C10_SecurityGroupGraphAcyclic ==
  \A r \in app.rules : ~Reaches(SgEdges, r.sg, r.sg)

\* the network stack's rules and the EFS group's rule are all in the graph
C10_AllGroupsRendered ==
  /\ phase = "synthesized"
  /\ \E r \in app.rules : r.sg[1] = "EcsStack" /\ r.port = 2049
  /\ \E r \in app.rules : r.sg[1] = "VpcStack" /\ r.port = 5432
  /\ Cardinality(SgEdges) >= 4

\* vpc.selectSubnets({subnetType: PRIVATE_ISOLATED}): the groups the database's
\* vpcSubnets selection resolves to
IsolatedGroups(rev) ==
  SelectSeq(SubnetConfiguration(rev), LAMBDA g : g.subnetType = "PRIVATE_ISOLATED")

Databases == {r.n : r \in {x \in app.res : x.ty = "DatabaseInstance"}}

\* C11: every database instance is declared over a VPC with at least one
\* PRIVATE_ISOLATED subnet group, and every group its placement resolves to is
\* of that type.
C11_DatabaseInIsolatedSubnets ==
  \A d \in Databases :
    /\ IsolatedGroups(cfg.net) # << >>
    /\ \A i \in 1..Len(IsolatedGroups(cfg.net)) :
         IsolatedGroups(cfg.net)[i].subnetType \notin {"PUBLIC", "PRIVATE_WITH_EGRESS"}

\* the database stack's instance is declared over a network stack's VPC
C11_DatabaseDeclared ==
  cfg.main = "B4" /\ <<"DatabaseStack", "OpenWebUIDatabase">> \in Databases

(***************************************************************************)
(* The VPC's address plan.                                                 *)
(***************************************************************************)
\* maxAzs: 3
MaxAzs == 3

RECURSIVE Pow2(_)
Pow2(n) == IF n = 0 THEN 1 ELSE 2 * Pow2(n - 1)

\* a dotted IPv4 address as a 32-bit number
Ip(a, b, c, d) == ((a * 256 + b) * 256 + c) * 256 + d

NetSize(mask) == Pow2(32 - mask)
MinAddress(c) == c.ip
MaxAddress(c) == c.ip + NetSize(c.mask) - 1

\* Variant: a parent block one size too small for nine subnets.
VpcCidrTooSmall(rev) ==
  IF rev \in {"p001", "p004"}
  THEN [ip |-> Ip(10, 0, 0, 0), mask |-> 25]
  ELSE [ip |-> Ip(10, 0, 0, 0), mask |-> 21]

\* ipAddresses: IpAddresses.cidr('10.0.0.0/24'); the default block is 10.0.0.0/16
VpcCidr(rev) ==
  IF rev \in {"p001", "p004"}
  THEN [ip |-> Ip(10, 0, 0, 0), mask |-> 24]
  ELSE [ip |-> Ip(10, 0, 0, 0), mask |-> 16]

\* the subnets the VPC asks for over n zones: group by group, one per zone
RequestedMasks(rev, n) ==
  [k \in 1..(Len(SubnetConfiguration(rev)) * n) |->
     SubnetConfiguration(rev)[((k - 1) \div n) + 1].cidrMask]

\* each subnet takes the next block of its size at or after the last one's end
RECURSIVE AllocateSubnetsCidr(_, _)
AllocateSubnetsCidr(masks, next) ==
  IF masks = << >> THEN << >>
  ELSE LET size == NetSize(Head(masks))
           start == IF next % size = 0 THEN next ELSE next + size - (next % size)
       IN << [ip |-> start, mask |-> Head(masks)] >>
            \o AllocateSubnetsCidr(Tail(masks), start + size)

SubnetCidrs(rev, n) == AllocateSubnetsCidr(RequestedMasks(rev, n), VpcCidr(rev).ip)

Overlap(c, d) == MinAddress(c) <= MaxAddress(d) /\ MinAddress(d) <= MaxAddress(c)
Inside(c, parent) ==
  MinAddress(parent) <= MinAddress(c) /\ MaxAddress(c) <= MaxAddress(parent)

Vpcs == {r.n : r \in {x \in app.res : x.ty = "Vpc"}}

\* C12: for every declared VPC, over one, two or three availability zones, the
\* subnets of its three groups are pairwise disjoint and lie inside the VPC's block.
C12_SubnetsPartitionVpcCidr ==
  \A v \in Vpcs : \A n \in 1..MaxAzs :
    LET subs == SubnetCidrs(cfg.net, n) IN
      /\ Len(subs) = 3 * n
      /\ \A i \in 1..Len(subs) : Inside(subs[i], VpcCidr(cfg.net))
      /\ \A i \in 1..Len(subs) : \A j \in 1..Len(subs) :
           i # j => ~Overlap(subs[i], subs[j])

\* both address plans are rendered: the /24 block in /28 subnets, the /16 in /24
C12_SmallVpcRendered ==
  /\ phase = "synthesized" /\ Vpcs # {}
  /\ VpcCidr(cfg.net).mask = 24
  /\ SubnetCidrs(cfg.net, MaxAzs)[9] = [ip |-> Ip(10, 0, 0, 128), mask |-> 28]

FileSystems == {r.n : r \in {x \in app.res : x.ty = "FileSystem"}}

\* C13: every file system of the compute stack has exactly one mount target in each
\* availability zone, and no two in one subnet.
C13_OneMountTargetPerAz ==
  \A fs \in FileSystems :
    /\ \A az \in 1..NumAzs : \E m \in app.mts : m.fs = fs /\ m.az = az
    /\ \A a \in app.mts : \A b \in app.mts :
         a.fs = fs /\ b.fs = fs /\ a.az = b.az => a = b

\* a file system rendered over a VPC with two private subnet groups
C13_FileSystemOverTwoGroups ==
  /\ phase = "synthesized" /\ FileSystems # {}
  /\ Len(PrivateGroups(cfg.net)) = 2

\* C14: every composition that declares the repository declares the retain-last-5
\* rule, and after the lifecycle policy has been applied the repository holds at
\* most 5 images, which are the ones pushed last.
C14_RetainLastFive ==
  /\ Repositories # {} => LifecycleRules(cfg) # << >>
  /\ images.applied =>
       /\ Len(images.held) <= MaxImageCount
       /\ \A i \in 1..Len(images.held) :
            images.held[i] = images.pushed - Len(images.held) + i

\* the policy has been applied to a repository that received more than 5 pushes
C14_PolicyAppliedAfterPushes ==
  images.applied /\ images.pushed > MaxImageCount

\* export names of the external outputs: VPC id, subnet id lists, load-balancer
\* DNS name, registry URI, database endpoint, file system id
ExternalOutputs ==
  {"vpcId", "publicSubnetIds", "privateSubnetIds", "albDnsName",
   "ecrRepositoryUri", "dbEndpoint", "efsFileSystemId"}

Exported == {o.exportName : o \in app.outputs}

\* C15: once main is synthesized, every external output is published under its
\* export name by some stack of the app.
C15_ExternalOutputsPublished ==
  Rendered => ExternalOutputs \subseteq Exported

\* main as written (network and registry stacks) is synthesized with outputs
C15_MainSynthesized ==
  /\ phase = "synthesized" /\ cfg.main = "B"
  /\ {"vpcId", "ecrRepositoryUri"} \subseteq Exported

\* The connections a composition wires between components, each from the security
\* group of the source to the security group attached to the destination, on the
\* port the destination listens on: the target group's port, the database port,
\* NFS for the EFS volume, the gateway and Ollama base URLs of the container.
Connections(c) ==
  LET net == MainStacks(c)[1].name
      conn(src, dst, port) == [src |-> src, dst |-> dst, port |-> port]
      ecsSg == <<net, "ECSSecurityGroup">>
  IN IF c.main = "M"
     THEN {conn(<<net, "AlbSecurityGroup">>, ecsSg, 8080),
           conn(ecsSg, <<net, "DBSecurityGroup">>, 5432)}
     ELSE IF c.main = "B4"
     THEN {conn(<<net, "AlbSecurityGroup">>, ecsSg, 8080)}
            \cup (IF "dbInstance" \in EcsStackProps(c.ecs)
                  THEN {conn(ecsSg, <<net, "DBSecurityGroup">>, 5432)} ELSE {})
            \cup (IF c.ecs \in {"lib", "p006", "p007a", "p007b"}
                  THEN {conn(ecsSg, <<"EcsStack", "EFSSecurityGroup">>, 2049)} ELSE {})
            \cup (IF c.ecs = "p007b"
                  THEN {conn(ecsSg, <<net, "BedrockGatewaySecurityGroup">>, 80)} ELSE {})
            \cup (IF c.ecs = "p009" THEN {conn(ecsSg, ecsSg, 11434)} ELSE {})
     ELSE {}

\* C16: in a rendered graph, for every wired connection the destination's security
\* group has an ingress rule admitting the source's group on the destination's port.
C16_ConnectionsAdmitted ==
  Rendered =>
    \A k \in Connections(cfg) :
      \E r \in app.rules : r.sg = k.dst /\ r.peer = k.src /\ r.port = k.port

\* a rendered composition with the OpenWebUI and Ollama services
C16_OllamaRendered ==
  /\ phase = "synthesized" /\ cfg.ecs = "p009"
  /\ <<"EcsStack", "OllamaService">> \in Services

(***************************************************************************)
(* Container environment maps.                                             *)
(***************************************************************************)
\* A value of the environment map is a sequence of parts: literal text, or a
\* reference to a JSON field of the database secret that deployment replaces by
\* the field's value.  A part of a connection URL has the role it plays in it.
Part(src, role, v) == [src |-> src, role |-> role, v |-> v]
Lit(v) == << Part("lit", "text", v) >>
Entry(name, value) == [name |-> name, value |-> value]

\* environment: {...} of the OpenWebUI container, per revision
Environment(rev) ==
  CASE rev = "p002" -> {Entry("WEBUI_SECRET_KEY", Lit("your-secret-key"))}
    [] rev = "p003" ->
         {Entry("WEBUI_SECRET_KEY", Lit("123456")), Entry("DEBUG", Lit("true")),
          Entry("DATABASE_TYPE", Lit("postgres")),
          Entry("DATABASE_URL",
                << Part("lit", "text", "postgresql://"),
                   Part("lit", "username", "postgres"),
                   Part("lit", "password", "=9nKAy=xNJpGycGv3WM7WHnAOONcNU"),
                   Part("lit", "host", "openwebui-db.ce0twoub7pwu.us-west-2.rds.amazonaws.com"),
                   Part("lit", "port", "5432"),
                   Part("lit", "dbname", "openwebui_db") >>)}
    [] rev = "p005" ->
         {Entry("WEBUI_SECRET_KEY", Lit("123456")), Entry("DEBUG", Lit("true")),
          Entry("DATABASE_TYPE", Lit("postgres")),
          Entry("DATABASE_URL",
                << Part("lit", "text", "postgresql://"),
                   Part("lit", "username", "postgres"),
                   Part("ref", "password", "password"),
                   Part("ref", "host", "host"),
                   Part("lit", "port", "5432"),
                   Part("ref", "dbname", "dbname") >>)}
    [] rev \in {"lib", "p006"} ->
         {Entry("WEBUI_SECRET_KEY", Lit("123456")), Entry("DEBUG", Lit("true")),
          Entry("DATABASE_TYPE", Lit("sqlite")),
          Entry("DATABASE_PATH", Lit("/app/backend/data/webui.db"))}
    [] rev = "p007a" ->
         {Entry("WEBUI_SECRET_KEY", Lit("123456")), Entry("DEBUG", Lit("true")),
          Entry("DATABASE_TYPE", Lit("efs"))}
    [] rev = "p007b" ->
         {Entry("OPENAI_API_BASE_URL",
                Lit("http://bedrock-gateway.bedrockforward.local/api/v1")),
          Entry("OPENAI_API_KEY", Lit("bedrock")),
          Entry("ENDPOINTS_CONFIG", Lit("http://bedrock-gateway.bedrockforward.local"))}
    [] rev = "p008" ->
         {Entry("WEBUI_SECRET_KEY", Lit("123456")), Entry("DEBUG", Lit("true")),
          Entry("DATABASE_TYPE", Lit("postgres"))}
    [] rev = "p009" ->
         {Entry("WEBUI_SECRET_KEY", Lit("123456")), Entry("DEBUG", Lit("true")),
          Entry("DATABASE_TYPE", Lit("postgres")),
          Entry("OLLAMA_BASE_URL", Lit("http://ollama.openwebui.local:11434"))}
    [] OTHER -> {}

\* the environment map of the containers a composition declares
ContainerEnvironment(c) ==
  IF c.main = "M" THEN Environment(c.net)
  ELSE IF c.main = "B4" THEN Environment(c.ecs) ELSE {}

\* two values of the generated database secret, differing in the credentials
DbSecretValues ==
  {[username |-> "postgres", password |-> "pw1", host |-> "db.internal",
    port |-> "5432", dbname |-> "openwebui_db"],
   [username |-> "admin", password |-> "pw2", host |-> "db.internal",
    port |-> "5432", dbname |-> "openwebui_db"]}

\* the value a deployment puts into the task definition
Resolve(value, secret) ==
  [i \in 1..Len(value) |-> IF value[i].src = "ref" THEN secret[value[i].v] ELSE value[i].v]

\* C17: in a rendered graph the environment map of every container is the same for any two
\* values of the database secret, and no value of it carries a database user
\* name or password.
C17_EnvironmentFreeOfCredentials ==
  Rendered =>
    \A e \in ContainerEnvironment(cfg) :
      /\ \A s1 \in DbSecretValues : \A s2 \in DbSecretValues :
           Resolve(e.value, s1) = Resolve(e.value, s2)
      /\ \A i \in 1..Len(e.value) : e.value[i].role \notin {"username", "password"}

\* a rendered OpenWebUI container that is given the database
C17_DatabaseBackedContainer ==
  /\ phase = "synthesized"
  /\ \E e \in env : e.h = "openWebUIContainer"
  /\ Databases # {}
  /\ \E e \in ContainerEnvironment(cfg) : e.name = "DATABASE_TYPE"


(***************************************************************************)
(* C18.  Order of the lifecycle verbs in the deploy job.                   *)
(***************************************************************************)
LifecycleVerbs == <<"Bootstrap CDK", "CDK Synth", "CDK Diff", "CDK Deploy">>

\* the step has ended, with this exit code
ExitedWith(name, code) ==
  IF Len(job.exit) >= StepIndex(name) THEN job.exit[StepIndex(name)] = code ELSE FALSE

\* C18: the job runs bootstrap, synth, diff and deploy in this order; the
\* application is constructed only after bootstrap exited with zero, the
\* difference is computed only after synth exited with zero, a deployment is
\* in progress only after synth and diff both exited with zero, and a non-zero
\* exit of one of the four fails the job there, with no later step run.
C18_LifecycleVerbsInOrder ==
  /\ \A i, k \in 1..Len(LifecycleVerbs) :
       i < k => StepIndex(LifecycleVerbs[i]) < StepIndex(LifecycleVerbs[k])
  /\ phase \in {"construct", "failed", "synthesized", "deploy", "converged", "aborted"}
       => ExitedWith("Bootstrap CDK", 0)
  /\ phase = "construct" => AtStep("CDK Synth")
  /\ phase = "synthesized" => AtStep("CDK Diff") /\ ExitedWith("CDK Synth", 0)
  /\ phase = "deploy"
       => AtStep("CDK Deploy") /\ ExitedWith("CDK Synth", 0) /\ ExitedWith("CDK Diff", 0)
  /\ phase = "converged" => job.outcome = "success"
  /\ \A i \in 1..Len(LifecycleVerbs) :
       ExitedWith(LifecycleVerbs[i], 1)
         => /\ job.outcome = "failure"
            /\ Len(job.exit) = StepIndex(LifecycleVerbs[i])

\* cdk deploy exited with a non-zero code after it had created resources
C18_DeployFailedMidway ==
  /\ ExitedWith("CDK Deploy", 1)
  /\ ExitedWith("CDK Diff", 0)
  /\ live # {}
  /\ round = 1


(***************************************************************************)
(* C19.  Stacks without a dependency edge between them.                    *)
(***************************************************************************)
Independent(s, t) ==
  /\ s # t
  /\ ~Reaches(app.stackDeps, s, t)
  /\ ~Reaches(app.stackDeps, t, s)

NodesOf(s) == {n \in TemplateNodes : n[1] = s}

LocalUses(B, j) ==
  {h \in B[j].uses : \E k \in 1..Len(B) : B[k].h = h /\ B[k].k \in {"new", "newfs", "container"}}

\* C20: in every revision of the EcsStack constructor, each statement reads only
\* handles declared by an earlier statement (the mount targets read the EFS
\* security group after it is constructed), and no statement of the constructor
\* throws for a handle read ahead of its declaration.
C20_HandlesConstructedBeforeUse ==
  /\ InBody /\ S = "EcsStack" => LocalUses(Body, pc) \subseteq DeclaredBefore(Body, pc)
  /\ err.s = "EcsStack" => err.type # "ReferenceError"

\* the first revision of part_007 stopped at its mount-target loop
C20_MountTargetsReadUndeclaredGroup ==
  /\ cfg.ecs = "p007a"
  /\ phase = "failed"
  /\ err.type = "ReferenceError"
  /\ err.k = "foreachmt"
  /\ job.outcome = "failure"


(***************************************************************************)
(* C21.  Scope of the task role's EFS client permissions.                  *)
(***************************************************************************)
AnyResource == <<"*", "*">>

\* the resources the role's Allow statements for these actions cover, together
Allowed(role, actions) ==
  UNION {p.resources : p \in {x \in app.policies : x.role = role /\ x.actions = actions}}

FileSystemNodes == {r.n : r \in {x \in app.res : x.ty = "FileSystem"}}

\* C21: in every rendered graph in which a role has a statement granting the EFS
\* client actions on the file system's ARN, the role's statements grant these
\* actions on the stack's file system only: no statement on every resource is
\* in effect.
C21_EfsClientScopedToFileSystem ==
  Rendered =>
    \A p \in app.policies :
      p.actions = EfsClient /\ p.resources \subseteq FileSystemNodes
        => Allowed(p.role, EfsClient) \subseteq FileSystemNodes

\* the compute stack of lib/ is rendered with both statements on the task role
C21_BothStatementsRendered ==
  /\ Rendered
  /\ cfg.ecs = "lib"
  /\ \E p \in app.policies : p.actions = EfsClient /\ p.resources = {AnyResource}
  /\ \E p \in app.policies : p.actions = EfsClient /\ p.resources \subseteq FileSystemNodes


(***************************************************************************)
(* C22.  The job's condition on the triggering event.                      *)
(***************************************************************************)
\* C22: a step of the deploy job has run only if the run was triggered by a pull
\* request closed by merging; for a pull request closed without merge the job is
\* skipped: no step has an exit code, main is not run and nothing is deployed
\* by this run.
C22_JobOnlyForMergedPullRequest ==
  /\ job.exit # << >> => job.event = "pull_request_merged"
  /\ job.event = "pull_request_closed" =>
       /\ job.outcome = "skipped"
       /\ job.exit = << >>
       /\ phase = "compile"
       /\ app = EmptyApp
       /\ round = 1 => live = {}

\* a pull request closed without merge triggers a run after an earlier deployment
C22_ClosedUnmergedAfterDeploy ==
  /\ job.event = "pull_request_closed"
  /\ job.outcome = "skipped"
  /\ round > 1
  /\ live # {}


(***************************************************************************)
(* C23.  A manually dispatched run.                                        *)
(***************************************************************************)
\* C23: a run triggered by workflow_dispatch is not skipped: its job runs its
\* steps towards CDK Deploy as the job of a merged pull request does.
C23_DispatchedRunDeploys ==
  job.event = "workflow_dispatch" => job.outcome # "skipped"

\* a manual dispatch after an earlier deployment: the job is skipped, no step ran
C23_DispatchSkipped ==
  /\ job.event = "workflow_dispatch"
  /\ job.outcome = "skipped"
  /\ job.exit = << >>
  /\ round > 1


(***************************************************************************)
(* C24.  The unit-test step.                                               *)
(***************************************************************************)
RunTests == "Run tests (if you have any)"

\* the steps other than the unit tests that have ended with a non-zero exit code
OtherFailures ==
  {i \in 1..Len(job.exit) : Steps[i].name # RunTests /\ job.exit[i] # 0}

\* C24: the exit code of npm test has no effect on the job: the job has failed
\* exactly if a step other than the tests exited with a non-zero code, it has
\* succeeded only with every step run and every other step at exit code zero, and
\* after failing tests the job goes on to bootstrap.
C24_TestFailureTolerated ==
  /\ job.outcome = "failure" <=> OtherFailures # {}
  /\ job.outcome = "success" => Len(job.exit) = Len(Steps) /\ OtherFailures = {}
  /\ job.outcome = "running" /\ Len(job.exit) = StepIndex(RunTests)
       => AtStep("Bootstrap CDK")

\* the tests failed and the job deployed all the same
C24_DeployedAfterFailingTests ==
  /\ ExitedWith(RunTests, 1)
  /\ ExitedWith("CDK Deploy", 0)
  /\ job.outcome = "success"
  /\ phase = "converged"
  /\ live # {}


(***************************************************************************)
(* C25.  JSON fields of the database secret injected into containers.      *)
(***************************************************************************)
\* ecs.Secret.fromSecretsManager(secret, field); field "" takes the whole secret
FromSecretsManager(name, secret, field) == [name |-> name, secret |-> secret, field |-> field]

\* secrets: {...} of the OpenWebUI container, per revision
Secrets(rev) ==
  CASE rev = "p002" ->
         {FromSecretsManager("DATABASE_URL", "dbInstance", "DATABASE_URL"),
          FromSecretsManager("POSTGRES_USER", "dbInstance", "username"),
          FromSecretsManager("POSTGRES_PASSWORD", "dbInstance", "password"),
          FromSecretsManager("POSTGRES_DB", "dbInstance", "dbname")}
    [] rev = "p003" ->
         {FromSecretsManager("WEBUI_DB_USER", "dbInstance", "username"),
          FromSecretsManager("WEBUI_DB_PASSWORD", "dbInstance", "password"),
          FromSecretsManager("WEBUI_DB_HOST", "dbInstance", "DATABASE_URL"),
          FromSecretsManager("WEBUI_DB_PORT", "dbInstance", "port"),
          FromSecretsManager("WEBUI_DB_NAME", "dbInstance", "dbname")}
    [] rev = "p005" ->
         {FromSecretsManager("POSTGRES_USER", "dbInstance", "username"),
          FromSecretsManager("POSTGRES_PASSWORD", "dbInstance", "password"),
          FromSecretsManager("POSTGRES_HOST", "dbInstance", "host"),
          FromSecretsManager("POSTGRES_PORT", "dbInstance", "port"),
          FromSecretsManager("POSTGRES_DB", "dbInstance", "dbname")}
    [] rev = "p008" -> {FromSecretsManager("DATABASE_URL", "databaseUrlSecret", "")}
    [] rev = "p009" -> {FromSecretsManager("DATABASE_URL", "dbInstance", "")}
    [] OTHER -> {}

ContainerSecrets(c) ==
  IF c.main = "M" THEN Secrets(c.net)
  ELSE IF c.main = "B4" THEN Secrets(c.ecs) ELSE {}

\* the keys of the secret generated for, and attached to, the database instance
GeneratedSecretFields ==
  {"username", "password", "host", "port", "dbname", "engine", "dbInstanceIdentifier"}

\* C25: in every rendered graph, each JSON field of the database instance's secret
\* that a container's secrets map names is a key of the generated secret.
C25_InjectedFieldsExist ==
  Rendered =>
    \A s \in ContainerSecrets(cfg) :
      s.secret = "dbInstance" /\ s.field # "" => s.field \in GeneratedSecretFields

\* a graph is rendered whose container injects fields of the database secret
C25_FieldsInjected ==
  /\ Rendered
  /\ \E s \in ContainerSecrets(cfg) : s.secret = "dbInstance" /\ s.field = "DATABASE_URL"
  /\ \E r \in app.res : r.ty = "DatabaseInstance"


(***************************************************************************)
(* C26.  Target groups a listener routes to.                               *)
(***************************************************************************)
ListenerNodes == {r.n : r \in {x \in app.res : x.ty = "Listener"}}
TargetGroupNodes == {r.n : r \in {x \in app.res : x.ty = "TargetGroup"}}

\* defaultTargetGroups of a listener
DefaultTargetGroups(l) == {tg \in TargetGroupNodes : <<l, tg>> \in app.edges}

\* the default target groups and the target groups of the listeners' rules
RoutableTargetGroups ==
  UNION {DefaultTargetGroups(l) : l \in ListenerNodes} \cup {r.tg : r \in app.lrules}

Registered(tg) == {t.svc : t \in {x \in app.targets : x.tg = tg}}

\* C26: in every rendered graph that has a compute service, each target group a
\* listener routes to, by default or by a rule, has a service registered with it.
C26_RoutableGroupsHaveTargets ==
  Rendered /\ Services # {} =>
    \A tg \in RoutableTargetGroups : Registered(tg) # {}

\* the service is registered through listeners[0].addTargets while the listener
\* keeps its default target group
C26_ServiceBehindRuleGroup ==
  /\ Rendered
  /\ cfg.main = "B4"
  /\ \E r \in app.lrules : Registered(r.tg) # {}
  /\ \E l \in ListenerNodes : \E tg \in DefaultTargetGroups(l) : Registered(tg) = {}


(***************************************************************************)
(* C27.  The stack-level dependency graph.                                 *)
(***************************************************************************)
\* declared stack dependencies and those implied by cross-stack references
StackEdges == app.stackDeps \cup CrossStackReferences

Providers == {"BaselineInfrastructure", "VpcStack", "EcrStack"}

\* C27: at every point of construction the stack-level dependency graph, declared
\* and implied, has no cycle, and the network and registry stacks depend on no
\* stack: no rule, attachment or other resource of the database or compute stack
\* makes them depend on a consumer.  In the rendered four-stack graph the
\* database and compute stacks both depend on the network stack.
C27_StackGraphRootedAtNetwork ==
  /\ \A s \in app.stacks : ~Reaches(StackEdges, s, s)
  /\ \A e \in StackEdges : e[1] \notin Providers
  /\ Rendered /\ cfg.main = "B4" =>
       \A s \in app.stacks \ Providers : Reaches(StackEdges, s, "VpcStack")

\* the rendered four-stack graph holds the EFS group's rule naming the network
\* stack's ECS group and a service registered with a target group of that stack
C27_ConsumersReferenceNetwork ==
  /\ Rendered
  /\ cfg.main = "B4"
  /\ \E r \in app.rules : r.sg[1] = "EcsStack" /\ r.peer # AnyIpv4 /\ r.peer[1] = "VpcStack"
  /\ \E t \in app.targets : t.svc[1] = "EcsStack" /\ t.tg[1] = "VpcStack"
  /\ <<"DatabaseStack", "VpcStack">> \in CrossStackReferences


(***************************************************************************)
(* C28.  Ingress from the internet.                                        *)
(***************************************************************************)
SecurityGroupNodes == {r.n : r \in {x \in app.res : x.ty = "SecurityGroup"}}

\* the groups a rule of sg admits traffic from
AdmittedBy(sg) == {r.peer : r \in {x \in app.rules : x.sg = sg}}

\* C28: at every point of construction, a rule admitting any IPv4 address is a
\* rule of the ALB group on port 80; every rule of another group names a
\* different, constructed security group as its source; the database group
\* admits the ECS group only and the ECS group the ALB group only.
C28_OnlyAlbOpenToInternet ==
  /\ \A r \in app.rules :
       IF r.peer = AnyIpv4
       THEN r.sg[2] = "AlbSecurityGroup" /\ r.port = 80
       ELSE r.peer \in SecurityGroupNodes /\ r.peer # r.sg
  /\ \A sg \in SecurityGroupNodes :
       /\ sg[2] = "DBSecurityGroup" => \A p \in AdmittedBy(sg) : p[2] = "ECSSecurityGroup"
       /\ sg[2] = "ECSSecurityGroup" => \A p \in AdmittedBy(sg) : p[2] = "AlbSecurityGroup"

\* the rendered four-stack graph with the rules of the ALB, ECS, database,
\* gateway and EFS groups
C28_AllRulesRendered ==
  /\ Rendered
  /\ \E r \in app.rules : r.peer = AnyIpv4
  /\ \E r \in app.rules : r.sg[2] = "DBSecurityGroup"
  /\ \E r \in app.rules : r.sg[2] = "BedrockGatewaySecurityGroup"
  /\ \E r \in app.rules : r.sg[2] = "EFSSecurityGroup"


(***************************************************************************)
(* C29.  Export names across the stacks of one app.                        *)
(***************************************************************************)
\* the stacks that publish an output under this export name
Exporters(name) == {o.s : o \in {x \in app.outputs : x.exportName = name}}

\* C29: at every point of construction, no export name is published by more than
\* one stack of the app.
C29_ExportNamesDistinct ==
  \A o \in app.outputs : o.exportName # "" => Cardinality(Exporters(o.exportName)) <= 1

\* the rendered four-stack graph in which the network stack and the compute
\* stack both publish the load balancer's DNS name
C29_TwoStacksExportAlbDnsName ==
  /\ Rendered
  /\ cfg.main = "B4"
  /\ {"VpcStack", "EcsStack"} \subseteq Exporters("albDnsName")

====
